---- MODULE Spec2Model ----
(***************************************************************************)
(* Model of app.py: the US-EPA style AQI engine (calculate_sub_aqi,        *)
(* get_aqi) and the category if-chain of the "Calculate AQI" handler.      *)
(*                                                                         *)
(* Concentrations are integers counting tenths of the pollutant's unit     *)
(* (12.1 ug/m3 is 121), which is the finest step of the number inputs.     *)
(* A sub-index is an exact rational <<numerator, denominator>> in lowest   *)
(* terms, so that equality of two sub-indices is equality of values, as    *)
(* `==` is in the code.                                                    *)
(***************************************************************************)
EXTENDS Integers, Sequences, FiniteSets

VARIABLES pc,                                \* position of the run
          pm25, pm10, co_ppm, o3_ppb, no2_ppb, \* arguments of get_aqi
          aqi, pollutant,                    \* result of get_aqi
          category, color,                   \* result of the if-chain
          bp, C, sub                         \* one call of calculate_sub_aqi

vars == <<pc, pm25, pm10, co_ppm, o3_ppb, no2_ppb, aqi, pollutant,
          category, color, bp, C, sub>>

(* ------------------------------ bounds -------------------------------- *)
\* tenths below 0 that a direct call of calculate_sub_aqi is tried with
Below == 3
\* tenths above the end of a range that a direct call is tried with
Above == 3
\* steps above a band's upper bound that get_aqi is tried with
Over == 1
\* integers outside 0..500 that the category chain is tried with
CatSlack == 20

(* --------------------------- optional values -------------------------- *)
\* None is the empty tuple, a supplied concentration c is <<c>>
None == <<>>

Some(c) == <<c>>

(* ----------------------------- the tables ----------------------------- *)
\* evaluation order of get_aqi
Pollutants == <<"PM2.5", "PM10", "CO", "O3", "NO2">>

PollutantSet == {Pollutants[i] : i \in 1..Len(Pollutants)}

bpPM25 == << <<0, 120, 0, 50>>, <<121, 354, 51, 100>>, <<355, 554, 101, 150>>,
             <<555, 1504, 151, 200>>, <<1505, 2504, 201, 300>>,
             <<2505, 5004, 301, 500>> >>

bpPM10 == << <<0, 540, 0, 50>>, <<550, 1540, 51, 100>>, <<1550, 2540, 101, 150>>,
             <<2550, 3540, 151, 200>>, <<3550, 4240, 201, 300>>,
             <<4250, 6040, 301, 500>> >>

bpCO == << <<0, 44, 0, 50>>, <<45, 94, 51, 100>>, <<95, 124, 101, 150>>,
           <<125, 154, 151, 200>>, <<155, 304, 201, 300>>,
           <<305, 504, 301, 500>> >>

bpO3 == << <<0, 540, 0, 50>>, <<550, 700, 51, 100>>, <<710, 850, 101, 150>>,
           <<860, 1050, 151, 200>>, <<1060, 2000, 201, 300>>,
           <<2010, 6040, 301, 500>> >>

bpNO2 == << <<0, 530, 0, 50>>, <<540, 1000, 51, 100>>, <<1010, 3600, 101, 150>>,
            <<3610, 6490, 151, 200>>, <<6500, 12490, 201, 300>>,
            <<12500, 20490, 301, 500>> >>

Table(p) ==
  CASE p = "PM2.5" -> bpPM25
    [] p = "PM10"  -> bpPM10
    [] p = "CO"    -> bpCO
    [] p = "O3"    -> bpO3
    [] p = "NO2"   -> bpNO2

(* ------------------------- the number inputs -------------------------- *)
\* max_value, value and step of each st.number_input, in tenths (min is 0)
WidgetMax(p) ==
  CASE p = "PM2.5" -> 10000
    [] p = "PM10"  -> 10000
    [] p = "CO"    -> 500
    [] p = "O3"    -> 4000
    [] p = "NO2"   -> 20000

WidgetDefault(p) ==
  CASE p = "PM2.5" -> 250
    [] p = "PM10"  -> 540
    [] p = "CO"    -> 10
    [] p = "O3"    -> 600
    [] p = "NO2"   -> 400

WidgetStep(p) ==
  CASE p = "PM2.5" -> 1
    [] p = "PM10"  -> 1
    [] p = "CO"    -> 1
    [] p = "O3"    -> 10
    [] p = "NO2"   -> 10

\* a concentration the input surface can supply for pollutant p
Suppliable(p, c) ==
  /\ 0 <= c
  /\ c <= WidgetMax(p)
  /\ c % WidgetStep(p) = 0

(* --------------------------- exact arithmetic ------------------------- *)
RECURSIVE GCD(_, _)
GCD(a, b) == IF b = 0 THEN a ELSE GCD(b, a % b)

\* n/d in lowest terms, for n >= 0 and d > 0
Rat(n, d) == LET g == GCD(n, d) IN <<n \div g, d \div g>>

\* a < b on rationals; whole parts first, so that no product overflows
Less(a, b) ==
  LET qa == a[1] \div a[2]
      qb == b[1] \div b[2]
  IN  \/ qa < qb
      \/ /\ qa = qb
         /\ (a[1] % a[2]) * b[2] < (b[1] % b[2]) * a[2]

(* -------------------------- calculate_sub_aqi ------------------------- *)
\* the band test of the loop
InBand(c, b) == b[1] <= c /\ c <= b[2]

\* faulty variants of Interpolate, which the properties must tell from it
Interpolate_NoOffset(c, b) ==
  Rat((b[4] - b[3]) * (c - b[1]), b[2] - b[1])

Interpolate_DivHigh(c, b) ==
  Rat(b[3] * (b[2] + 1) + (b[4] - b[3]) * (c - b[1]), b[2] + 1)

Interpolate_NoShift(c, b) ==
  Rat(b[3] * (b[2] - b[1]) + (b[4] - b[3]) * c, b[2] - b[1])

Interpolate_WideSlope(c, b) ==
  Rat(b[3] * (b[2] - b[1]) + (b[4] - b[3] + 1) * (c - b[1]), b[2] - b[1])

\* low_i + (high_i - low_i) * (C - low_c) / (high_c - low_c)
Interpolate(c, b) ==
  Rat(b[3] * (b[2] - b[1]) + (b[4] - b[3]) * (c - b[1]), b[2] - b[1])

\* faulty variants of Fallback, which the properties must tell from it
Fallback_FirstBand(c, breakpoints) ==
  IF c > breakpoints[1][2] THEN Rat(500, 1) ELSE Rat(0, 1)

Fallback_Swapped(c, breakpoints) ==
  IF c > breakpoints[Len(breakpoints)][2] THEN Rat(0, 1) ELSE Rat(500, 1)

\* return 500 if C > breakpoints[-1][1] else 0
Fallback(c, breakpoints) ==
  IF c > breakpoints[Len(breakpoints)][2] THEN Rat(500, 1) ELSE Rat(0, 1)

\* the loop returns at the first band that contains C
calculate_sub_aqi(c, breakpoints) ==
  LET M == {i \in 1..Len(breakpoints) : InBand(c, breakpoints[i])}
  IN  IF M = {}
      THEN Fallback(c, breakpoints)
      ELSE Interpolate(c, breakpoints[CHOOSE i \in M : \A j \in M : i <= j])

(* ------------------------------- get_aqi ------------------------------ *)
\* one `if x is not None: aqi_list.append((name, calculate_sub_aqi(x, bp)))`
Entry(p, x) ==
  IF x = None THEN <<>> ELSE << <<p, calculate_sub_aqi(x[1], Table(p))>> >>

\* max() of a non-empty list of sub-indices: the first of the largest
RECURSIVE MaxFrom(_, _, _)
MaxFrom(l, i, best) ==
  IF i > Len(l) THEN best
  ELSE MaxFrom(l, i + 1, IF Less(best, l[i][2]) THEN l[i][2] ELSE best)

MaxVal(l) == MaxFrom(l, 2, l[1][2])

\* round(): the nearest integer.  A value exactly halfway between two
\* integers goes to the even one when the float holds it exactly and to
\* either neighbour when the float evaluation is an ulp off it, so both
\* neighbours are outcomes.
RoundSet(v) ==
  LET q == v[1] \div v[2]
      r == v[1] % v[2]
  IN  IF 2 * r < v[2] THEN {q}
      ELSE IF 2 * r > v[2] THEN {q + 1}
      ELSE {q, q + 1}

\* faulty variants of get_aqi, which the properties must tell from it
get_aqi_LastWins(a_pm25, a_pm10, a_co, a_o3, a_no2) ==
  LET aqi_list == Entry("PM2.5", a_pm25) \o Entry("PM10", a_pm10)
                  \o Entry("CO", a_co) \o Entry("O3", a_o3)
                  \o Entry("NO2", a_no2)
  IN  IF aqi_list = <<>>
      THEN {<<0, "No data">>}
      ELSE LET overall_aqi == MaxVal(aqi_list)
               hits == SelectSeq(aqi_list, LAMBDA e : e[2] = overall_aqi)
           IN  {<<a, hits[Len(hits)][1]>> : a \in RoundSet(overall_aqi)}

get_aqi_ShortList(a_pm25, a_pm10, a_co, a_o3, a_no2) ==
  LET aqi_list == Entry("PM2.5", a_pm25) \o Entry("PM10", a_pm10)
                  \o Entry("CO", a_co) \o Entry("O3", a_o3)
                  \o Entry("NO2", a_no2)
  IN  IF Len(aqi_list) <= 1
      THEN {<<0, "No data">>}
      ELSE LET overall_aqi == MaxVal(aqi_list)
               hits == SelectSeq(aqi_list, LAMBDA e : e[2] = overall_aqi)
           IN  {<<a, hits[1][1]>> : a \in RoundSet(overall_aqi)}

\* the set of pairs (index, dominant pollutant) a call can return
get_aqi(a_pm25, a_pm10, a_co, a_o3, a_no2) ==
  LET aqi_list == Entry("PM2.5", a_pm25) \o Entry("PM10", a_pm10)
                  \o Entry("CO", a_co) \o Entry("O3", a_o3)
                  \o Entry("NO2", a_no2)
  IN  IF aqi_list = <<>>
      THEN {<<0, "No data">>}
      ELSE LET overall_aqi == MaxVal(aqi_list)
               hits == SelectSeq(aqi_list, LAMBDA e : e[2] = overall_aqi)
           IN  {<<a, hits[1][1]>> : a \in RoundSet(overall_aqi)}

(* --------------------------- category chain --------------------------- *)
\* faulty variants of Category, which the properties must tell from it
Category_Strict(a) ==
  IF a < 50 THEN <<"Good", "#00e400">>
  ELSE IF a < 100 THEN <<"Moderate", "#ffff00">>
  ELSE IF a < 150 THEN <<"Unhealthy for Sensitive Groups", "#ff7e00">>
  ELSE IF a < 200 THEN <<"Unhealthy", "#ff0000">>
  ELSE IF a < 300 THEN <<"Very Unhealthy", "#8f3f97">>
  ELSE <<"Hazardous", "#7e0023">>

\* the if / elif chain: <<category, color>>
Category(a) ==
  IF a <= 50 THEN <<"Good", "#00e400">>
  ELSE IF a <= 100 THEN <<"Moderate", "#ffff00">>
  ELSE IF a <= 150 THEN <<"Unhealthy for Sensitive Groups", "#ff7e00">>
  ELSE IF a <= 200 THEN <<"Unhealthy", "#ff0000">>
  ELSE IF a <= 300 THEN <<"Very Unhealthy", "#8f3f97">>
  ELSE <<"Hazardous", "#7e0023">>

(* ------------------------------- inputs ------------------------------- *)
\* the upper bound of the last band of p's table
Top(p) == Table(p)[Len(Table(p))][2]

\* the larger of the end of the input range and the end of the table
RangeEnd(p) == IF WidgetMax(p) > Top(p) THEN WidgetMax(p) ELSE Top(p)

\* concentrations a direct call of calculate_sub_aqi is tried with
SubInputs(p) == (0 - Below)..(RangeEnd(p) + Above)

\* concentrations a call of get_aqi is tried with: the default, both
\* bounds of every band, and the steps right above the first and last band
Probes(p) ==
  {WidgetDefault(p)}
    \cup {Table(p)[i][1] : i \in 1..Len(Table(p))}
    \cup {Table(p)[i][2] : i \in 1..Len(Table(p))}
    \cup {Table(p)[1][2] + k * WidgetStep(p) : k \in 1..Over}
    \cup {Top(p) + k * WidgetStep(p) : k \in 1..Over}

\* concentrations whose sub-index is exactly halfway between two integers
\* (PM2.5 0.6 and PM10 2.7 give 2.5), and PM2.5 600, far above its table
ExtraProbes(p) ==
  CASE p = "PM2.5" -> {6, 6000}
    [] p = "PM10"  -> {27}
    [] OTHER       -> {}

Args(p) == {None} \cup {Some(c) : c \in Probes(p) \cup ExtraProbes(p)}

(* --------------------- get_aqi and the if-chain ----------------------- *)
Init ==
  /\ pc = "ready"
  /\ pm25 \in Args("PM2.5")
  /\ pm10 \in Args("PM10")
  /\ co_ppm \in Args("CO")
  /\ o3_ppb \in Args("O3")
  /\ no2_ppb \in Args("NO2")
  /\ aqi = 0
  /\ pollutant = ""
  /\ category = ""
  /\ color = ""
  /\ bp = ""
  /\ C = 0
  /\ sub = <<0, 1>>

\* aqi, pollutant = get_aqi(...), then the category chain
Calculate ==
  /\ pc = "ready"
  /\ \E res \in get_aqi(pm25, pm10, co_ppm, o3_ppb, no2_ppb) :
       /\ aqi' = res[1]
       /\ pollutant' = res[2]
       /\ category' = Category(res[1])[1]
       /\ color' = Category(res[1])[2]
  /\ pc' = "shown"
  /\ UNCHANGED <<pm25, pm10, co_ppm, o3_ppb, no2_ppb, bp, C, sub>>

Next == Calculate

Spec == Init /\ [][Next]_vars

(* ---------------------- calculate_sub_aqi alone ----------------------- *)
InitSub ==
  /\ pc = "sub_call"
  /\ bp \in PollutantSet
  /\ C \in SubInputs(bp)
  /\ sub = <<0, 1>>
  /\ pm25 = None
  /\ pm10 = None
  /\ co_ppm = None
  /\ o3_ppb = None
  /\ no2_ppb = None
  /\ aqi = 0
  /\ pollutant = ""
  /\ category = ""
  /\ color = ""

SubAqi ==
  /\ pc = "sub_call"
  /\ sub' = calculate_sub_aqi(C, Table(bp))
  /\ pc' = "sub_done"
  /\ UNCHANGED <<pm25, pm10, co_ppm, o3_ppb, no2_ppb, aqi, pollutant,
                 category, color, bp, C>>

NextSub == SubAqi

SpecSub == InitSub /\ [][NextSub]_vars

(* ------------------------ the if-chain alone -------------------------- *)
InitCat ==
  /\ pc = "cat_call"
  /\ aqi \in (0 - CatSlack)..(500 + CatSlack)
  /\ pollutant = ""
  /\ category = ""
  /\ color = ""
  /\ pm25 = None
  /\ pm10 = None
  /\ co_ppm = None
  /\ o3_ppb = None
  /\ no2_ppb = None
  /\ bp = ""
  /\ C = 0
  /\ sub = <<0, 1>>

Categorize ==
  /\ pc = "cat_call"
  /\ category' = Category(aqi)[1]
  /\ color' = Category(aqi)[2]
  /\ pc' = "cat_done"
  /\ UNCHANGED <<pm25, pm10, co_ppm, o3_ppb, no2_ppb, aqi, pollutant,
                 bp, C, sub>>

NextCat == Categorize

SpecCat == InitCat /\ [][NextCat]_vars

(* ====================================================================== *)
(*                              Properties                                *)
(* ====================================================================== *)
ArgOf(p) ==
  CASE p = "PM2.5" -> pm25
    [] p = "PM10"  -> pm10
    [] p = "CO"    -> co_ppm
    [] p = "O3"    -> o3_ppb
    [] p = "NO2"   -> no2_ppb

Supplied == {p \in PollutantSet : ArgOf(p) # None}

SubOf(p) == calculate_sub_aqi(ArgOf(p)[1], Table(p))

Pos(p) == CHOOSE i \in 1..Len(Pollutants) : Pollutants[i] = p

Bands(p) == 1..Len(Table(p))

\* a is an integer nearest to the rational v
Nearest(a, v) ==
  /\ 2 * (a * v[2] - v[1]) <= v[2]
  /\ 2 * (v[1] - a * v[2]) <= v[2]

\* v1 <= 10 * v < v2
Tenths(v, v1, v2) == v1 * v[2] <= 10 * v[1] /\ 10 * v[1] < v2 * v[2]

CategoryNames == <<"Good", "Moderate", "Unhealthy for Sensitive Groups",
                   "Unhealthy", "Very Unhealthy", "Hazardous">>

\* C1: at the lower bound of any band of any table calculate_sub_aqi
\* returns exactly that band's low_i, and at the upper bound exactly high_i.
C1_Endpoints ==
  pc = "sub_done" =>
    \A i \in Bands(bp) :
      /\ C = Table(bp)[i][1] => sub = <<Table(bp)[i][3], 1>>
      /\ C = Table(bp)[i][2] => sub = <<Table(bp)[i][4], 1>>

C1_Witness ==
  /\ pc = "sub_done"
  /\ bp = "CO"
  /\ C = 94
  /\ sub = <<100, 1>>

\* C2: every concentration the input surface can supply between the first
\* band's lower bound and the last band's upper bound lies in exactly one
\* band of its table, and the six index ranges of every table are
\* contiguous and non-overlapping over 0..500.
C2_Contiguous ==
  /\ (pc = "sub_done" /\ Suppliable(bp, C)
        /\ Table(bp)[1][1] <= C /\ C <= Top(bp))
       => Cardinality({i \in Bands(bp) : InBand(C, Table(bp)[i])}) = 1
  /\ \A p \in PollutantSet :
       /\ Table(p)[1][3] = 0
       /\ Table(p)[Len(Table(p))][4] = 500
       /\ \A i \in Bands(p) : Table(p)[i][3] <= Table(p)[i][4]
       /\ \A i \in Bands(p) \ {1} : Table(p)[i][3] = Table(p)[i - 1][4] + 1

\* C3: with at least one pollutant supplied, the dominant pollutant is the
\* first supplied one, in the order PM2.5, PM10, CO, O3, NO2, whose
\* unrounded sub-index is the maximum over the supplied ones, and the index
\* is that maximum rounded to a nearest integer; only supplied pollutants
\* enter, and a single supplied pollutant is the result with its rounded
\* sub-index.
C3_MaxAndDominant ==
  (pc = "shown" /\ Supplied # {}) =>
    /\ pollutant \in Supplied
    /\ \A p \in Supplied : ~Less(SubOf(pollutant), SubOf(p))
    /\ \A p \in Supplied :
         Pos(p) < Pos(pollutant) => Less(SubOf(p), SubOf(pollutant))
    /\ Nearest(aqi, SubOf(pollutant))
    /\ \A p \in Supplied :
         Supplied = {p} => pollutant = p /\ Nearest(aqi, SubOf(p))

C3_Witness ==
  /\ pc = "shown"
  /\ pm25 = None
  /\ pm10 = Some(540)
  /\ co_ppm = Some(10)
  /\ o3_ppb = Some(540)
  /\ no2_ppb = None
  /\ pollutant = "PM10"
  /\ aqi = 50

\* C4: a concentration strictly above the upper bound of the last band
\* gives exactly 500, and a concentration that matches no band and is not
\* above that bound gives exactly 0.
C4_Fallback ==
  pc = "sub_done" =>
    /\ C > Top(bp) => sub = <<500, 1>>
    /\ ((\A i \in Bands(bp) : ~InBand(C, Table(bp)[i])) /\ C <= Top(bp))
         => sub = <<0, 1>>

C4_Witness ==
  /\ pc = "sub_done"
  /\ bp = "PM10"
  /\ C = 545
  /\ sub = <<0, 1>>

\* C5: with all five pollutants absent get_aqi returns (0, "No data"), and
\* "No data" is the dominant pollutant in no other case.
C5_NoData ==
  pc = "shown" =>
    /\ Supplied = {} => (aqi = 0 /\ pollutant = "No data")
    /\ pollutant = "No data" => Supplied = {}

C5_Witness ==
  /\ pc = "shown"
  /\ Supplied = {}
  /\ aqi = 0
  /\ pollutant = "No data"

\* C6: every integer index gets exactly one category with its fixed color:
\* 0..50 Good, 51..100 Moderate, 101..150 Unhealthy for Sensitive Groups,
\* 151..200 Unhealthy, 201..300 Very Unhealthy, above 300 Hazardous.
C6_Categories ==
  pc = "cat_done" =>
    /\ \E i \in 1..Len(CategoryNames) : category = CategoryNames[i]
    /\ (0 <= aqi /\ aqi <= 50) => (category = "Good" /\ color = "#00e400")
    /\ (51 <= aqi /\ aqi <= 100)
         => (category = "Moderate" /\ color = "#ffff00")
    /\ (101 <= aqi /\ aqi <= 150)
         => (category = "Unhealthy for Sensitive Groups" /\ color = "#ff7e00")
    /\ (151 <= aqi /\ aqi <= 200)
         => (category = "Unhealthy" /\ color = "#ff0000")
    /\ (201 <= aqi /\ aqi <= 300)
         => (category = "Very Unhealthy" /\ color = "#8f3f97")
    /\ aqi > 300 => (category = "Hazardous" /\ color = "#7e0023")

C6_Witness ==
  /\ pc = "cat_done"
  /\ aqi = 100
  /\ category = "Moderate"
  /\ color = "#ffff00"

\* C7 as stated: for PM2.5 = 25.0 the sub-index is
\* 50 + (100-50)*(25.0-12.1)/(35.4-12.1), about 77.7.
C7_Original ==
  (pc = "sub_done" /\ bp = "PM2.5" /\ C = 250) =>
    /\ sub = Rat(50 * 233 + (100 - 50) * 129, 233)
    /\ Tenths(sub, 776, 778)

\* C7 amended: for PM2.5 = 25.0 the sub-index is
\* 51 + (100-51)*(25.0-12.1)/(35.4-12.1), about 78.1.
C7_Amended ==
  (pc = "sub_done" /\ bp = "PM2.5" /\ C = 250) =>
    /\ sub = Rat(51 * 233 + (100 - 51) * 129, 233)
    /\ Tenths(sub, 781, 782)

C7_Witness ==
  /\ pc = "sub_done"
  /\ bp = "PM2.5"
  /\ C = 250
  /\ sub # <<0, 1>>

\* C8: with the default inputs the PM10 sub-index is exactly 50, the O3
\* sub-index is in 51..100 (about 67.3), the index is the rounded maximum
\* of the five sub-indices, the dominant pollutant produced that maximum
\* and the category is Moderate.
Defaults ==
  /\ pm25 = Some(WidgetDefault("PM2.5"))
  /\ pm10 = Some(WidgetDefault("PM10"))
  /\ co_ppm = Some(WidgetDefault("CO"))
  /\ o3_ppb = Some(WidgetDefault("O3"))
  /\ no2_ppb = Some(WidgetDefault("NO2"))

C8_Defaults ==
  (pc = "shown" /\ Defaults) =>
    /\ SubOf("PM10") = <<50, 1>>
    /\ Tenths(SubOf("O3"), 510, 1001)
    /\ Tenths(SubOf("O3"), 673, 674)
    /\ pollutant \in PollutantSet
    /\ \A p \in PollutantSet : ~Less(SubOf(pollutant), SubOf(p))
    /\ Nearest(aqi, SubOf(pollutant))
    /\ category = "Moderate"

C8_Witness ==
  /\ pc = "shown"
  /\ Defaults
  /\ aqi = 78
  /\ pollutant = "PM2.5"

\* C9: when some supplied concentration is strictly above the top of its
\* table the index is exactly 500 and the category Hazardous, whatever the
\* other readings; no readings give an index above 500 or below 0.
C9_Saturation ==
  pc = "shown" =>
    /\ (\E p \in Supplied : ArgOf(p)[1] > Top(p))
         => (aqi = 500 /\ category = "Hazardous")
    /\ 0 <= aqi
    /\ aqi <= 500

C9_Witness ==
  /\ pc = "shown"
  /\ pm25 = Some(6000)
  /\ pm10 = Some(540)
  /\ aqi = 500
  /\ category = "Hazardous"

\* C10: when every supplied concentration lies inside a band of its table,
\* the category is the one of the highest-numbered band that a supplied
\* concentration falls in.
BandOf(p) == CHOOSE i \in Bands(p) : InBand(ArgOf(p)[1], Table(p)[i])

C10_BandCategory ==
  (/\ pc = "shown"
   /\ Supplied # {}
   /\ \A p \in Supplied : \E i \in Bands(p) : InBand(ArgOf(p)[1], Table(p)[i]))
    => \E p \in Supplied :
         /\ \A q \in Supplied : BandOf(q) <= BandOf(p)
         /\ category = CategoryNames[BandOf(p)]

C10_Witness ==
  /\ pc = "shown"
  /\ pm25 = Some(354)
  /\ pm10 = Some(27)
  /\ co_ppm = Some(10)
  /\ o3_ppb = None
  /\ no2_ppb = Some(400)
  /\ aqi = 100
  /\ category = "Moderate"

====
